---- MODULE Spec2Model ----
(***************************************************************************)
(* Model of src/alekya.py: the JSON / JSON-Lines to Arrow converter.       *)
(*                                                                         *)
(* The input file is a sequence of lexemes.  A lexeme is a piece of text   *)
(* that no code path of read_json splits: one punctuation character, one   *)
(* whitespace character, a number literal, or a complete single-line       *)
(* object text.  The environment composes the file line by line, then      *)
(* main() runs on it: read_json (scan, dispatch, whole-document parse,     *)
(* line loop), normalize_data, write_pyarrow, exit code.                   *)
(***************************************************************************)
EXTENDS Integers, Sequences, FiniteSets, TLC

(* ---------------- bounds ---------------- *)
MaxLines == 3
MaxRows == 2

(* ---------------- lexemes ---------------- *)
\* "SP" is a blank, "NL" a line feed, "FF" a form feed; "1" is the number
\* literal 1; "OA" is the text {"a":1} and "ON" the text {"a":null}.
NL == "NL"
ObjLexemes == {"OA", "ON"}

\* The line texts the environment composes input files from.
LineTexts ==
  { <<>>, <<"SP">>, <<"FF">>,
    <<"OA">>, <<"ON">>, <<"1">>,
    <<"{">>, <<"}">>, <<"[">>, <<"]">>,
    <<"[", "OA", ",">>, <<"ON", "]">>,
    <<"OA", "FF">> }

(* ---------------- Python values ---------------- *)
\* Every value has the same four fields, so that values of different Python
\* types can be compared: ty is the Python type, txt the text of a scalar,
\* keys/kids the keys and values of a dict (kids alone: the items of a list).
PyNone == [ty |-> "None", txt |-> "", keys |-> <<>>, kids |-> <<>>]
PyInt(s) == [ty |-> "int", txt |-> s, keys |-> <<>>, kids |-> <<>>]
PyStr(s) == [ty |-> "str", txt |-> s, keys |-> <<>>, kids |-> <<>>]
PyBool(s) == [ty |-> "bool", txt |-> s, keys |-> <<>>, kids |-> <<>>]
PyList(items) == [ty |-> "list", txt |-> "", keys |-> <<>>, kids |-> items]
PyDict(ks, vs) == [ty |-> "dict", txt |-> "", keys |-> ks, kids |-> vs]

\* The value json decodes an object lexeme to.
ObjValue(lex) ==
  IF lex = "OA" THEN PyDict(<<"a">>, <<PyInt("1")>>)
  ELSE PyDict(<<"a">>, <<PyNone>>)

(* ---------------- whitespace ---------------- *)
\* A whitespace test that knows blanks and line feeds only.
IsSpaceNarrow(lex) == lex \in {"SP", "NL"}

\* str.isspace() / str.strip(): Unicode whitespace, form feed included.
IsSpace(lex) == lex \in {"SP", "NL", "FF"}

\* json.decoder.WHITESPACE: blank, tab, line feed, carriage return only.
JsonWs(lex) == lex \in {"SP", "NL"}

\* The first character of a lexeme's text.
FirstChar(lex) == IF lex \in ObjLexemes THEN "{" ELSE lex

(* ---------------- json.load / json.loads ---------------- *)
Fail == [ok |-> FALSE, val |-> PyNone, end |-> 0]
Done(v, e) == [ok |-> TRUE, val |-> v, end |-> e]

RECURSIVE SkipWs(_, _)
SkipWs(s, i) ==
  IF i <= Len(s) /\ JsonWs(s[i]) THEN SkipWs(s, i + 1) ELSE i

RECURSIVE ParseValue(_, _)
RECURSIVE ParseItems(_, _, _)

\* scan_once: one JSON value starting at s[i]; end is the index after it.
ParseValue(s, i) ==
  IF i > Len(s) THEN Fail
  ELSE IF s[i] \in ObjLexemes THEN Done(ObjValue(s[i]), i + 1)
  ELSE IF s[i] = "1" THEN Done(PyInt("1"), i + 1)
  ELSE IF s[i] = "{" THEN
    LET j == SkipWs(s, i + 1) IN
      IF j <= Len(s) /\ s[j] = "}" THEN Done(PyDict(<<>>, <<>>), j + 1) ELSE Fail
  ELSE IF s[i] = "[" THEN
    LET j == SkipWs(s, i + 1) IN
      IF j <= Len(s) /\ s[j] = "]" THEN Done(PyList(<<>>), j + 1)
      ELSE ParseItems(s, j, <<>>)
  ELSE Fail

\* JSONArray: value (ws , ws value)* ws ]
ParseItems(s, i, acc) ==
  LET r == ParseValue(s, i) IN
    IF ~r.ok THEN Fail
    ELSE LET j == SkipWs(s, r.end) IN
      IF j > Len(s) THEN Fail
      ELSE IF s[j] = "]" THEN Done(PyList(Append(acc, r.val)), j + 1)
      ELSE IF s[j] = "," THEN ParseItems(s, SkipWs(s, j + 1), Append(acc, r.val))
      ELSE Fail

\* JSONDecoder.decode: leading whitespace, one value, trailing whitespace,
\* then the end of the text ("Extra data" otherwise).
json_loads(s) ==
  LET r == ParseValue(s, SkipWs(s, 1)) IN
    IF r.ok /\ SkipWs(s, r.end) = Len(s) + 1 THEN r ELSE Fail

(* ---------------- str() and normalize_data ---------------- *)
RECURSIVE Repr(_)
RECURSIVE ReprItems(_, _)
RECURSIVE ReprPairs(_, _, _)

\* repr() of the items of a list, from item i on, joined by ", ".
ReprItems(items, i) ==
  IF i > Len(items) THEN ""
  ELSE Repr(items[i]) \o (IF i < Len(items) THEN ", " ELSE "") \o ReprItems(items, i + 1)

\* repr() of the pairs of a dict, from pair i on.
ReprPairs(ks, vs, i) ==
  IF i > Len(ks) THEN ""
  ELSE "'" \o ks[i] \o "': " \o Repr(vs[i])
       \o (IF i < Len(ks) THEN ", " ELSE "") \o ReprPairs(ks, vs, i + 1)

\* repr(v): a string is quoted, a container renders its items with repr.
Repr(v) ==
  IF v.ty = "None" THEN "None"
  ELSE IF v.ty = "str" THEN "'" \o v.txt \o "'"
  ELSE IF v.ty = "list" THEN "[" \o ReprItems(v.kids, 1) \o "]"
  ELSE IF v.ty = "dict" THEN "{" \o ReprPairs(v.keys, v.kids, 1) \o "}"
  ELSE v.txt

\* A str() that quotes strings the way repr() does.
StrQuoting(v) == PyStr(Repr(v))

\* str(v): a string is returned as it is, anything else is rendered.
Str(v) == IF v.ty = "str" THEN v ELSE PyStr(Repr(v))

\* Lines 98-101: None stays None, every other value becomes str(v).
NormValue(v) == IF v = PyNone THEN PyNone ELSE Str(v)

\* Lines 96-102: one row; row.items() needs a dict.
NormRow(row) == PyDict(row.keys, [i \in 1..Len(row.kids) |-> NormValue(row.kids[i])])

\* normalize_data: AttributeError at the first row that has no items().
normalize_data(rows) ==
  IF \E i \in 1..Len(rows) : rows[i].ty # "dict"
  THEN [ok |-> FALSE, val |-> <<>>]
  ELSE [ok |-> TRUE, val |-> [i \in 1..Len(rows) |-> NormRow(rows[i])]]

(* ---------------- lines of a text file ---------------- *)
RECURSIVE SplitLines(_, _)
\* Iterating a text file: each line keeps its line feed; a last line
\* without one is a line too, an empty remainder is not.
SplitLines(s, cur) ==
  IF s = <<>> THEN (IF cur = <<>> THEN <<>> ELSE <<cur>>)
  ELSE IF Head(s) = NL THEN <<Append(cur, NL)>> \o SplitLines(Tail(s), <<>>)
  ELSE SplitLines(Tail(s), Append(cur, Head(s)))

LinesOf(s) == SplitLines(s, <<>>)

\* A blank test that knows the empty line only.
IsBlankEmptyOnly(line) == line = <<>> \/ line = <<NL>>

\* Line 57: not line.strip()
IsBlank(line) == \A i \in 1..Len(line) : IsSpace(line[i])

RECURSIVE ScanFrom(_, _)
\* Lines 25-33: the position of the first non-whitespace lexeme, or
\* Len(s) + 1 when there is none.
ScanFrom(s, i) ==
  IF i <= Len(s) /\ IsSpace(s[i]) THEN ScanFrom(s, i + 1) ELSE i

(* ---------------- read_json: the branches' decisions ---------------- *)
Rows(v) == [ok |-> TRUE, rows |-> v]
ValueError == [ok |-> FALSE, rows |-> <<>>]

\* An array branch that returns the document as one record.
ArrayRootWrapped(v) == Rows(<<v>>)

\* Lines 39-41: the document must be a list and is returned as it is.
ArrayRoot(v) == IF v.ty = "list" THEN Rows(v.kids) ELSE ValueError

\* An object branch that returns the object's values instead of the object.
ObjectRootUnwrapped(v) == Rows(v.kids)

\* Lines 46-51: a dict is wrapped in a list, a list is returned as it is.
ObjectRoot(v) ==
  IF v.ty = "dict" THEN Rows(<<v>>)
  ELSE IF v.ty = "list" THEN Rows(v.kids)
  ELSE ValueError

\* A '[' branch that falls back to the line loop.
OnArrayDecodeErrorFallback == "jsonl"

\* Lines 38, 72-74: JSONDecodeError in the '[' branch propagates.
OnArrayDecodeError == "failed"

\* A '{' branch without the fallback.
OnObjectDecodeErrorRaise == "failed"

\* Lines 52-54: JSONDecodeError in the '{' branch starts the line loop.
OnObjectDecodeError == "jsonl"

\* A line loop that never aborts.
RaisesOnMalformedNever(st) == FALSE

\* Lines 63-68: a malformed line raises in strict mode only.
RaisesOnMalformed(st) == st

\* A main() that ignores a failed write.
AfterWriteIgnoringFailure(outcome) == "done"

\* Lines 129, 132-134: a write that raises ends in main's except.
AfterWrite(outcome) == IF outcome = "ok" THEN "done" ELSE "failed"

(* ---------------- state ---------------- *)
VARIABLES
  input_exists,   \* args.input.exists()
  file,           \* the input file's text, a sequence of lexemes
  pc,             \* where main() is
  strict,         \* args.strict
  first_non_ws,   \* read_json's first_non_ws ("" when there is none)
  pos,            \* read_json's pos: the index of first_non_ws in file
  branch,         \* the branch read_json took
  lineno,         \* the line loop's i: lines read so far
  result,         \* the line loop's result
  skipped_lines,  \* read_json's skipped_lines
  data,           \* main's data
  error,          \* the exception that ended the run, "" when none
  called,         \* the functions main() has called
  completed,      \* the functions that returned
  exitcode,       \* the process's exit code, -1 while it runs
  outfile,        \* the output file: "untouched", "partial", "written"
  norm_in,        \* a record sequence handed to normalize_data
  norm_once,      \* normalize_data(norm_in)
  norm_twice      \* normalize_data(normalize_data(norm_in))

vars == <<input_exists, file, pc, strict, first_non_ws, pos, branch, lineno,
          result, skipped_lines, data, error, called, completed, exitcode,
          outfile, norm_in, norm_once, norm_twice>>

readVars == <<first_non_ws, pos, branch, lineno, result, skipped_lines>>
normVars == <<norm_in, norm_once, norm_twice>>

Init ==
  /\ input_exists = FALSE
  /\ file = <<>>
  /\ pc = "compose"
  /\ strict = FALSE
  /\ first_non_ws = ""
  /\ pos = 0
  /\ branch = "none"
  /\ lineno = 0
  /\ result = <<>>
  /\ skipped_lines = 0
  /\ data = <<>>
  /\ error = ""
  /\ called = {}
  /\ completed = {}
  /\ exitcode = -1
  /\ outfile = "untouched"
  /\ norm_in = <<>>
  /\ norm_once = <<>>
  /\ norm_twice = <<>>

NlCount(s) == Cardinality({i \in 1..Len(s) : s[i] = NL})

(* ---------------- the environment: the input file ---------------- *)
\* Someone writes one more line to the input file before the run.
ComposeLine(l) ==
  /\ pc = "compose"
  /\ IF input_exists THEN NlCount(file) + 1 < MaxLines ELSE MaxLines > 0
  /\ input_exists' = TRUE
  /\ file' = IF input_exists THEN file \o <<NL>> \o l ELSE l
  /\ UNCHANGED <<pc, strict, readVars, data, error, called, completed,
                 exitcode, outfile, normVars>>

(* ---------------- main() ---------------- *)
\* Lines 105-124: the arguments, then the check that the input exists.
MainStart(st) ==
  /\ pc = "compose"
  /\ strict' = st
  /\ IF input_exists
     THEN /\ pc' = "read_json"
          /\ called' = {"read_json"}
          /\ UNCHANGED <<exitcode>>
     ELSE /\ pc' = "exit"
          /\ exitcode' = 1
          /\ UNCHANGED <<called>>
  /\ UNCHANGED <<input_exists, file, readVars, data, error, completed,
                 outfile, normVars>>

(* ---------------- read_json ---------------- *)
\* Lines 24-33: skip whitespace up to the first other character.
Scan ==
  /\ pc = "read_json"
  /\ LET p == ScanFrom(file, 1) IN
       /\ pos' = p
       /\ first_non_ws' = IF p <= Len(file) THEN FirstChar(file[p]) ELSE ""
  /\ pc' = "dispatch"
  /\ UNCHANGED <<input_exists, file, strict, branch, lineno, result,
                 skipped_lines, data, error, called, completed, exitcode,
                 outfile, normVars>>

\* read_json returns rows to main (line 127).
Return(rows) ==
  /\ data' = rows
  /\ completed' = completed \cup {"read_json"}
  /\ pc' = "normalize"
  /\ UNCHANGED <<error>>

\* read_json raises (lines 72-74): main's data is never assigned.
Raise(e) ==
  /\ error' = e
  /\ pc' = "failed"
  /\ UNCHANGED <<data, completed>>

\* Lines 34-35: nothing but whitespace.
ReturnEmpty ==
  /\ pc = "dispatch"
  /\ first_non_ws = ""
  /\ branch' = "empty"
  /\ Return(<<>>)
  /\ UNCHANGED <<input_exists, file, strict, first_non_ws, pos, lineno, result,
                 skipped_lines, called, exitcode, outfile, normVars>>

\* Lines 36-41: json.load from pos on; a decode error propagates.
LoadArray ==
  /\ pc = "dispatch"
  /\ first_non_ws = "["
  /\ LET r == json_loads(SubSeq(file, pos, Len(file))) IN
       IF r.ok
       THEN /\ branch' = "array"
            /\ UNCHANGED <<lineno>>
            /\ IF ArrayRoot(r.val).ok
               THEN Return(ArrayRoot(r.val).rows)
               ELSE Raise("ValueError")
       ELSE IF OnArrayDecodeError = "jsonl"
       THEN /\ branch' = "jsonl"
            /\ lineno' = 0
            /\ pc' = "jsonl"
            /\ UNCHANGED <<data, completed, error>>
       ELSE /\ branch' = "array"
            /\ UNCHANGED <<lineno>>
            /\ Raise("JSONDecodeError")
  /\ UNCHANGED <<input_exists, file, strict, first_non_ws, pos, result,
                 skipped_lines, called, exitcode, outfile, normVars>>

\* Lines 42-55: json.load from pos on; on a decode error seek(0) and
\* start the line loop.
LoadWhole ==
  /\ pc = "dispatch"
  /\ first_non_ws = "{"
  /\ LET r == json_loads(SubSeq(file, pos, Len(file))) IN
       IF r.ok
       THEN /\ branch' = "object"
            /\ UNCHANGED <<lineno>>
            /\ IF ObjectRoot(r.val).ok
               THEN Return(ObjectRoot(r.val).rows)
               ELSE Raise("ValueError")
       ELSE IF OnObjectDecodeError = "jsonl"
       THEN /\ branch' = "jsonl"
            /\ lineno' = 0
            /\ pc' = "jsonl"
            /\ UNCHANGED <<data, completed, error>>
       ELSE /\ branch' = "object"
            /\ UNCHANGED <<lineno>>
            /\ Raise("JSONDecodeError")
  /\ UNCHANGED <<input_exists, file, strict, first_non_ws, pos, result,
                 skipped_lines, called, exitcode, outfile, normVars>>

\* Lines 70-71: any other first character.
RejectRoot ==
  /\ pc = "dispatch"
  /\ first_non_ws \notin {"", "[", "{"}
  /\ branch' = "other"
  /\ Raise("ValueError")
  /\ UNCHANGED <<input_exists, file, strict, first_non_ws, pos, lineno, result,
                 skipped_lines, called, exitcode, outfile, normVars>>

\* Lines 56-68: one iteration of the line loop.
ReadLine ==
  /\ pc = "jsonl"
  /\ lineno < Len(LinesOf(file))
  /\ lineno' = lineno + 1
  /\ LET line == LinesOf(file)[lineno + 1]
         r == json_loads(line)
     IN IF IsBlank(line)
        THEN UNCHANGED <<result, skipped_lines, pc, error>>
        ELSE IF r.ok
        THEN /\ result' = Append(result, r.val)
             /\ UNCHANGED <<skipped_lines, pc, error>>
        ELSE IF RaisesOnMalformed(strict)
        THEN /\ error' = "JSONDecodeError"
             /\ pc' = "failed"
             /\ UNCHANGED <<result, skipped_lines>>
        ELSE /\ skipped_lines' = skipped_lines + 1
             /\ UNCHANGED <<result, pc, error>>
  /\ UNCHANGED <<input_exists, file, strict, first_non_ws, pos, branch, data,
                 called, completed, exitcode, outfile, normVars>>

\* Line 69: the loop is over.
ReturnLines ==
  /\ pc = "jsonl"
  /\ lineno = Len(LinesOf(file))
  /\ Return(result)
  /\ UNCHANGED <<input_exists, file, strict, readVars, called, exitcode,
                 outfile, normVars>>

(* ---------------- main(): after read_json ---------------- *)
\* Line 128: data = normalize_data(data).
Normalize ==
  /\ pc = "normalize"
  /\ called' = called \cup {"normalize_data"}
  /\ IF normalize_data(data).ok
     THEN /\ data' = normalize_data(data).val
          /\ completed' = completed \cup {"normalize_data"}
          /\ pc' = "write"
          /\ UNCHANGED <<error>>
     ELSE /\ error' = "AttributeError"
          /\ pc' = "failed"
          /\ UNCHANGED <<data, completed>>
  /\ UNCHANGED <<input_exists, file, strict, readVars, exitcode, outfile,
                 normVars>>

\* Line 129: write_pyarrow builds the table and writes the file; it may
\* raise before it opens the output or while it writes it.
Write(outcome) ==
  /\ pc = "write"
  /\ called' = called \cup {"write_pyarrow"}
  /\ pc' = AfterWrite(outcome)
  /\ IF outcome = "ok"
     THEN /\ outfile' = "written"
          /\ completed' = completed \cup {"write_pyarrow"}
          /\ UNCHANGED <<error>>
     ELSE /\ outfile' = IF outcome = "fail_open" THEN "untouched" ELSE "partial"
          /\ error' = "WriteError"
          /\ UNCHANGED <<completed>>
  /\ UNCHANGED <<input_exists, file, strict, readVars, data, exitcode,
                 normVars>>

\* Lines 130-131 and the end of main(): exit code 0.
MainFinish ==
  /\ pc = "done"
  /\ exitcode' = 0
  /\ pc' = "exit"
  /\ UNCHANGED <<input_exists, file, strict, readVars, data, error, called,
                 completed, outfile, normVars>>

\* Lines 132-134: any exception of the three calls ends in sys.exit(1).
MainExcept ==
  /\ pc = "failed"
  /\ exitcode' = 1
  /\ pc' = "exit"
  /\ UNCHANGED <<input_exists, file, strict, readVars, data, error, called,
                 completed, outfile, normVars>>

Next ==
  \/ \E l \in LineTexts : ComposeLine(l)
  \/ \E st \in BOOLEAN : MainStart(st)
  \/ Scan
  \/ ReturnEmpty
  \/ LoadArray
  \/ LoadWhole
  \/ RejectRoot
  \/ ReadLine
  \/ ReturnLines
  \/ Normalize
  \/ \E o \in {"ok", "fail_open", "fail_write"} : Write(o)
  \/ MainFinish
  \/ MainExcept

Spec == Init /\ [][Next]_vars

(* ---------------- normalize_data on its own ---------------- *)
\* The field values the records below are built from.
FieldValues ==
  { PyNone, PyInt("1"), PyStr("1"), PyBool("True"),
    PyList(<<PyInt("1"), PyStr("x")>>), PyDict(<<"b">>, <<PyNone>>) }

\* Records over the keys a and b.
NormRecords ==
  {PyDict(<<>>, <<>>)}
  \cup {PyDict(<<k>>, <<v>>) : k \in {"a", "b"}, v \in FieldValues}
  \cup {PyDict(<<"a", "b">>, <<v, w>>) : v \in FieldValues, w \in FieldValues}

RowSeqs == UNION {[1..n -> NormRecords] : n \in 0..MaxRows}

InitNorm ==
  /\ input_exists = FALSE
  /\ file = <<>>
  /\ pc = "norm_start"
  /\ strict = FALSE
  /\ first_non_ws = ""
  /\ pos = 0
  /\ branch = "none"
  /\ lineno = 0
  /\ result = <<>>
  /\ skipped_lines = 0
  /\ data = <<>>
  /\ error = ""
  /\ called = {}
  /\ completed = {}
  /\ exitcode = -1
  /\ outfile = "untouched"
  /\ norm_in \in RowSeqs
  /\ norm_once = <<>>
  /\ norm_twice = <<>>

\* normalize_data applied to the input.
NormOnce ==
  /\ pc = "norm_start"
  /\ normalize_data(norm_in).ok
  /\ norm_once' = normalize_data(norm_in).val
  /\ pc' = "norm_once"
  /\ UNCHANGED <<input_exists, file, strict, readVars, data, error, called,
                 completed, exitcode, outfile, norm_in, norm_twice>>

\* normalize_data applied to its own output.
NormTwice ==
  /\ pc = "norm_once"
  /\ normalize_data(norm_once).ok
  /\ norm_twice' = normalize_data(norm_once).val
  /\ pc' = "norm_twice"
  /\ UNCHANGED <<input_exists, file, strict, readVars, data, error, called,
                 completed, exitcode, outfile, norm_in, norm_once>>

NextNorm ==
  \/ NormOnce
  \/ NormTwice

SpecNorm == InitNorm /\ [][NextNorm]_vars

(* ---------------- what the claims speak of ---------------- *)
Lines == LinesOf(file)

\* A line of nothing but whitespace characters.
BlankLine(l) == \A i \in 1..Len(l) : l[i] \in {"SP", "NL", "FF"}
ValidLine(l) == ~BlankLine(l) /\ json_loads(l).ok
MalformedLine(l) == ~BlankLine(l) /\ ~json_loads(l).ok

RECURSIVE ValuesOf(_)
\* The values of the valid lines, in line order.
ValuesOf(ls) ==
  IF ls = <<>> THEN <<>>
  ELSE (IF ValidLine(Head(ls)) THEN <<json_loads(Head(ls)).val>> ELSE <<>>)
       \o ValuesOf(Tail(ls))

NValid == Cardinality({i \in 1..Len(Lines) : ValidLine(Lines[i])})
NMalformed == Cardinality({i \in 1..Len(Lines) : MalformedLine(Lines[i])})
NBlank == Cardinality({i \in 1..Len(Lines) : BlankLine(Lines[i])})
HasMalformed == NMalformed > 0
FirstMalformed ==
  CHOOSE i \in 1..Len(Lines) :
    MalformedLine(Lines[i]) /\ \A j \in 1..(i - 1) : ~MalformedLine(Lines[j])

ReadReturned == "read_json" \in completed
ReadRaised == pc \in {"failed", "exit"} /\ input_exists /\ ~ReadReturned

RECURSIVE DropSpace(_)
\* s without the whitespace characters it starts with.
DropSpace(s) ==
  IF s # <<>> /\ Head(s) \in {"SP", "NL", "FF"} THEN DropSpace(Tail(s)) ELSE s

\* The file without its leading whitespace.
Body == DropSpace(file)
\* main() is past read_json's dispatch on the first character.
Dispatched == input_exists /\ pc \notin {"compose", "read_json", "dispatch"}
StartsWithBracket == Body # <<>> /\ Head(Body) = "["
StartsWithBrace == Body # <<>> /\ Head(Body) \in {"{", "OA", "ON"}
\* The input the line loop is for: it starts with '{' and is not one value.
LineDelimited == StartsWithBrace /\ ~json_loads(Body).ok
\* A text without the blanks and line feeds between its lexemes.
Squeeze(s) == SelectSeq(s, LAMBDA x : x \notin {"SP", "NL"})
OnlyWhitespace == \A i \in 1..Len(file) : file[i] \in {"SP", "NL", "FF"}

\* The texts of the well-formed objects, and the object each denotes.
ObjTexts == {<<"OA">>, <<"ON">>, <<"{", "}">>}
TextValue(t) ==
  IF t = <<"OA">> THEN PyDict(<<"a">>, <<PyInt("1")>>)
  ELSE IF t = <<"ON">> THEN PyDict(<<"a">>, <<PyNone>>)
  ELSE PyDict(<<>>, <<>>)

ObjSeqs == UNION {[1..n -> ObjTexts] : n \in 0..MaxLines}

RECURSIVE Joined(_, _)
\* The texts of os from i on, separated by commas.
Joined(os, i) ==
  IF i > Len(os) THEN <<>>
  ELSE os[i] \o (IF i < Len(os) THEN <<",">> ELSE <<>>) \o Joined(os, i + 1)

\* The text of the JSON array of the objects os.
ArrayText(os) == <<"[">> \o Joined(os, 1) \o <<"]">>

(* ---------------- claims ---------------- *)

C2_StrictAborts ==
  (Dispatched /\ LineDelimited /\ strict /\ HasMalformed) =>
    /\ branch = "jsonl"
    /\ lineno <= FirstMalformed
    /\ (lineno = FirstMalformed) = (pc \in {"failed", "exit"})
    /\ pc \in {"jsonl", "failed", "exit"}
    /\ ~ReadReturned
    /\ data = <<>>
    /\ called = {"read_json"}
    /\ outfile = "untouched"
    /\ pc \in {"failed", "exit"} => error = "JSONDecodeError"
    /\ pc = "exit" => exitcode = 1

C2_Witness ==
  /\ branch = "jsonl" /\ strict /\ pc = "exit" /\ exitcode = 1
  /\ Len(result) >= 1
  /\ lineno < Len(Lines)
  /\ ValidLine(Lines[Len(Lines)])

\* C3: an input of nothing but whitespace (the empty input included) makes
\* read_json return no records and skipped_lines 0, and never raise, in
\* strict and in non-strict mode.
C3_WhitespaceOnly ==
  (Dispatched /\ OnlyWhitespace) =>
    /\ branch = "empty"
    /\ ReadReturned
    /\ skipped_lines = 0
    /\ pc = "normalize" => data = <<>>

C3_Witness ==
  /\ pc = "normalize" /\ branch = "empty" /\ strict
  /\ data = <<>> /\ skipped_lines = 0
  /\ \E i \in 1..Len(file) : file[i] = "FF"
  /\ \E i \in 1..Len(file) : file[i] = "SP"

\* C4: an input that is a well-formed JSON array of N objects, whitespace
\* before it allowed, makes read_json return the N objects in array order
\* with skipped_lines 0, in strict and in non-strict mode.
C4_ArrayInOrder ==
  (Dispatched /\ StartsWithBracket) =>
    \A os \in ObjSeqs :
      Squeeze(Body) = ArrayText(os) =>
        /\ branch = "array"
        /\ ReadReturned
        /\ skipped_lines = 0
        /\ pc = "normalize" => data = [i \in 1..Len(os) |-> TextValue(os[i])]

C4_Witness ==
  /\ pc = "normalize" /\ branch = "array"
  /\ file[1] = "FF"
  /\ data = <<TextValue(<<"OA">>), TextValue(<<"ON">>)>>
  /\ skipped_lines = 0

\* C5: an input whose whole content is one well-formed JSON object, on one
\* line or on several, whitespace around it allowed, makes read_json return
\* that object alone with skipped_lines 0, and the line loop is not entered.
C5_SingleObject ==
  \A t \in ObjTexts :
    (Dispatched /\ Squeeze(Body) = t) =>
      /\ branch = "object"
      /\ lineno = 0
      /\ ReadReturned
      /\ skipped_lines = 0
      /\ pc = "normalize" => data = <<TextValue(t)>>

C5_Witness ==
  /\ pc = "normalize" /\ branch = "object"
  /\ Len(Lines) = 3
  /\ Squeeze(Body) = <<"{", "}">>
  /\ data = <<PyDict(<<>>, <<>>)>>

\* C6: when the first non-whitespace character is '[' and the text from
\* there on is not one JSON value, read_json raises at once in strict and
\* in non-strict mode: no line loop, no records returned, skipped_lines 0.
C6_ArrayAllOrNothing ==
  (Dispatched /\ StartsWithBracket /\ ~json_loads(Body).ok) =>
    /\ first_non_ws = "["
    /\ branch = "array"
    /\ pc \in {"failed", "exit"}
    /\ error = "JSONDecodeError"
    /\ lineno = 0
    /\ result = <<>>
    /\ skipped_lines = 0
    /\ data = <<>>
    /\ ~ReadReturned
    /\ called = {"read_json"}

C6_Witness ==
  /\ first_non_ws = "[" /\ ~strict /\ pc = "exit" /\ exitcode = 1
  /\ error = "JSONDecodeError"
  /\ \E i \in 1..Len(Lines) : ValidLine(Lines[i])

\* C7: normalize_data is idempotent and keeps null: normalizing its output
\* changes nothing, rows and keys are kept, a null field stays null and
\* every other field becomes a string.
C7_Idempotent ==
  /\ pc = "norm_twice" => norm_twice = norm_once
  /\ pc \in {"norm_once", "norm_twice"} =>
       /\ Len(norm_once) = Len(norm_in)
       /\ \A i \in 1..Len(norm_in) :
            /\ norm_once[i].ty = "dict"
            /\ norm_once[i].keys = norm_in[i].keys
            /\ \A k \in 1..Len(norm_in[i].kids) :
                 IF norm_in[i].kids[k].ty = "None"
                 THEN norm_once[i].kids[k].ty = "None"
                 ELSE norm_once[i].kids[k].ty = "str"

C7_Witness ==
  /\ pc = "norm_twice"
  /\ norm_in = <<PyDict(<<"a", "b">>, <<PyNone, PyStr("1")>>),
                 PyDict(<<"a">>, <<PyList(<<PyInt("1"), PyStr("x")>>)>>)>>
  /\ norm_twice = <<PyDict(<<"a", "b">>, <<PyNone, PyStr("1")>>),
                    PyDict(<<"a">>, <<PyStr("[1, 'x']")>>)>>

\* C8: the exit code is 0 exactly when read_json, normalize_data and
\* write_pyarrow all returned, and 1 otherwise; a missing input file ends
\* the run with exit code 1 before any of the three is called.
C8_ExitCode ==
  /\ pc # "exit" => exitcode = -1
  /\ pc = "exit" =>
       /\ exitcode \in {0, 1}
       /\ (exitcode = 0) =
            (completed = {"read_json", "normalize_data", "write_pyarrow"} /\ error = "")
       /\ ~input_exists => (exitcode = 1 /\ called = {} /\ outfile = "untouched")

C8_Witness ==
  /\ pc = "exit" /\ exitcode = 1
  /\ error = "WriteError"
  /\ completed = {"read_json", "normalize_data"}
  /\ Len(data) >= 2

\* C9: normalize_data never raises on what read_json returned, whatever
\* JSON values the records are: once called it returns.
C9_NormalizeNeverRaises ==
  (ReadReturned /\ "normalize_data" \in called) =>
    ("normalize_data" \in completed /\ error # "AttributeError")

\* C10: in non-strict mode an input whose first non-whitespace character is
\* '{' never makes read_json raise: when the text is not one JSON value the
\* line loop runs over the whole file from its start, and every non-blank
\* line is either returned or counted in skipped_lines.
C10_LenientBraceNeverFails ==
  (Dispatched /\ StartsWithBrace /\ ~strict) =>
    /\ first_non_ws = "{"
    /\ ~ReadRaised
    /\ (branch = "jsonl") = ~json_loads(Body).ok
    /\ (branch = "jsonl" /\ pc = "jsonl") =>
         Len(result) + skipped_lines
           = Cardinality({i \in 1..lineno : ~BlankLine(Lines[i])})
    /\ (branch = "jsonl" /\ ReadReturned) =>
         /\ lineno = Len(Lines)
         /\ Len(result) + skipped_lines = Len(Lines) - NBlank

C10_Witness ==
  /\ first_non_ws = "{" /\ ~strict /\ pc = "normalize" /\ branch = "jsonl"
  /\ file[1] = "{"
  /\ data = <<>>
  /\ skipped_lines = Len(Lines)
  /\ skipped_lines >= 2

====
